---- MODULE Spec2Model ----
(***************************************************************************)
(* MediData backend: the appointment-request lifecycle, the provider      *)
(* search and the favorites.                                               *)
(*                                                                         *)
(* The Requests table lives in the external store; the handlers           *)
(* create_request, update_request and cancel_request read and write it.   *)
(* The repository carries two update_request handlers: the one of         *)
(* Controllers/RequestController.py (update_request below) and the one    *)
(* mounted on the FastAPI app in main.py (main_update_request below).     *)
(*                                                                         *)
(* A handler is a pure operator from (table, caller, input) to the HTTP   *)
(* status code it answers and the table it leaves; an action applies it.  *)
(* No handler awaits between its reads and its write, so each runs        *)
(* without interleaving in Spec.                                          *)
(*                                                                         *)
(* search_providers awaits the registry: SpecSearch runs it in two steps,  *)
(* up to the await and from the registry's reply on. SpecFavorites runs    *)
(* add_favorite, remove_favorite and get_favorite_providers of main.py on  *)
(* the FavProviders table.  SpecRegister runs register on the accounts of  *)
(* the Auth Gateway and the Patients and Providers tables; SpecNormalize   *)
(* applies transform_npi_result to raw registry records.                   *)
(*                                                                         *)
(* The store is shared by every server process: SpecFavRace and            *)
(* SpecRequestRace run two calls side by side, one store call per step.    *)
(***************************************************************************)
EXTENDS Integers, Sequences, FiniteSets, TLC

VARIABLES
    Requests,   \* the rows of the Requests table
    Providers,  \* the provider_id of every row of the Providers table
    nextId,     \* the appointment_id the store gives the next inserted row
    last,       \* the call being answered: caller, input, status code and
                \* the Requests table the handler found (NoCall between calls)
    search,     \* the search_providers call in progress (SearchIdle when none)
    FavProviders, \* the rows of the FavProviders table
    lastFav,    \* the favorites call being answered (NoFavCall between calls)
    inflight,   \* the calls that server processes run side by side on the
                \* store: each call's position and local variables
    Accounts,   \* the ids of the users of the Auth Gateway
    Patients,   \* the patient_id of every row of the Patients table
    lastReg,    \* the register call being answered (NoRegCall between calls)
    npi         \* the registry record given to transform_npi_result, and
                \* what it returned

vars ==
    <<Requests, Providers, nextId, last, search, FavProviders, lastFav,
      inflight, Accounts, Patients, lastReg, npi>>

----------------------------------------------------------------------------
(* Bounds and input domains *)

\* At most this many requests are ever created in one behaviour of Spec,
\* where every payload of UpdateInputs is tried on the request.
MaxRequests == 1

\* At most this many requests are ever created in one behaviour of SpecRows,
\* where several requests are stored side by side.
MaxRows == 2

\* limit of a search ranges over 1..MaxLimit (the code admits 1..200)
MaxLimit == 3

\* the registry answers a search with at most this many records
MaxRegistryResults == 2

\* add_favorite is called while FavProviders holds fewer rows than this
MaxFavorites == 3

\* the longest taxonomy list of a registry record given to the normalizer
MaxTaxonomies == 3

\* Optional[T]: None is the empty sequence, a present value v is <<v>>.
None == <<>>
Some(v) == <<v>>
Val(o) == o[1]

\* A time string is the sequence of its tokens, ":" being the separator.
TimeHM == <<"10", ":", "30">>

\* current_user as get_current_user resolves it: id and user_metadata.role
Users ==
    { [id |-> "patient-1", role |-> "patient"],
      [id |-> "patient-2", role |-> "patient"],
      [id |-> "provider-1", role |-> "provider"],
      [id |-> "provider-2", role |-> "provider"] }

\* provider ids a create_request call may name; "prov-unknown" has no row
ProviderIdInputs == {"provider-1", "prov-unknown"}

\* The values a body may give each field. Spec tries every combination of
\* time, message, status and response; date, which the handlers copy exactly
\* as they copy message, is supplied in SpecRows.
DateInputs == {None}
TimeInputs == {None, Some(TimeHM)}
MessageInputs == {None, Some("Updated message")}
StatusInputs == {None, Some("pending"), Some("approved"), Some("rejected"), Some("maybe")}
ResponseInputs == {None, Some("See you soon")}

\* JSON bodies of POST /api/requests. The CreateRequest model declares
\* provider_id, message, date, time and npi_num; a body may carry other keys
\* (status here), which the model does not declare. npi_num is copied to the
\* row and read by no handler, so it is left out.
CreateInputs ==
    [provider_id : ProviderIdInputs, message : {"Old message"},
     date : DateInputs, time : {None}, status : {None, Some("approved")}]

\* JSON bodies of PUT /api/requests/{request_id} (the UpdateRequest model)
UpdateInputs ==
    [date : DateInputs, time : TimeInputs, message : MessageInputs,
     status : StatusInputs, response : ResponseInputs]

\* the bodies tried in SpecRows: an edit by the patient, a decision by the provider
RowsCreateInputs ==
    [provider_id : {"provider-1"}, message : {"Old message"},
     date : {None}, time : {None}, status : {None}]

RowsUpdateInputs ==
    { [date |-> Some("2025-02-01"), time |-> None,
       message |-> Some("Updated message"), status |-> None, response |-> None],
      [date |-> None, time |-> None, message |-> None,
       status |-> Some("approved"), response |-> Some("See you soon")] }

----------------------------------------------------------------------------
(* Python helpers *)

\* truthiness of an Optional[str]: neither None nor the empty string
Truthy(o) == o # None /\ Val(o) # ""
\* the same for a time string, held as its sequence of tokens
TruthyTime(o) == o # None /\ Val(o) # <<>>

\* a dict is a function on the set of its keys
EmptyDict == [k \in {} |-> None]
Put(d, k, v) == [x \in (DOMAIN d) \cup {k} |-> IF x = k THEN v ELSE d[x]]

\* ":" in time_value
HasColon(s) == \E i \in 1..Len(s) : s[i] = ":"

\* time_value.split(":")
RECURSIVE Split(_)
Split(s) ==
    IF ~HasColon(s) THEN <<s>>
    ELSE LET i == CHOOSE j \in 1..Len(s) :
                     s[j] = ":" /\ \A k \in 1..(j - 1) : s[k] # ":"
         IN  <<SubSeq(s, 1, i - 1)>> \o Split(SubSeq(s, i + 1, Len(s)))

----------------------------------------------------------------------------
(* The store: supabase.table(...).select/insert/update/delete *)

SelectById(table, request_id) == {r \in table : r.appointment_id = request_id}

ApplyUpdate(row, update_data) ==
    [f \in DOMAIN row |-> IF f \in DOMAIN update_data THEN update_data[f] ELSE row[f]]

UpdateById(table, request_id, update_data) ==
    {IF r.appointment_id = request_id THEN ApplyUpdate(r, update_data) ELSE r : r \in table}

DeleteById(table, request_id) == {r \in table : r.appointment_id # request_id}

----------------------------------------------------------------------------
(* create_request *)

\* Mutant: the row starts in the status the body carries, when it carries one
request_insert_status_from_body(appointment_id, current_user, request_data) ==
    [appointment_id |-> appointment_id,
     patient_id |-> current_user.id,
     provider_id |-> request_data.provider_id,
     message |-> request_data.message,
     status |-> IF request_data.status # None
                THEN Val(request_data.status) ELSE "pending",
     date |-> IF Truthy(request_data.date) THEN request_data.date ELSE None,
     time |-> IF TruthyTime(request_data.time) THEN request_data.time ELSE None,
     response |-> None]

\* the row create_request builds (request_insert) with the id the store gives it
request_insert(appointment_id, current_user, request_data) ==
    [appointment_id |-> appointment_id,
     patient_id |-> current_user.id,
     provider_id |-> request_data.provider_id,
     message |-> request_data.message,
     status |-> "pending",
     date |-> IF Truthy(request_data.date) THEN request_data.date ELSE None,
     time |-> IF TruthyTime(request_data.time) THEN request_data.time ELSE None,
     response |-> None]

\* Mutant: the provider is not looked up before the insert
create_request_unchecked(table, providers, appointment_id, current_user, request_data) ==
    IF current_user.role # "patient"
    THEN [code |-> 403, Requests |-> table]
    ELSE [code |-> 200,
          Requests |-> table \cup
              {request_insert(appointment_id, current_user, request_data)}]

create_request(table, providers, appointment_id, current_user, request_data) ==
    IF current_user.role # "patient"
    THEN [code |-> 403, Requests |-> table]
    ELSE IF {p \in providers : p = request_data.provider_id} = {}
    THEN [code |-> 404, Requests |-> table]
    ELSE [code |-> 200,
          Requests |-> table \cup
              {request_insert(appointment_id, current_user, request_data)}]

----------------------------------------------------------------------------
(* update_request of Controllers/RequestController.py *)

\* HH:MM is padded to HH:MM:00
format_time(time_value) ==
    IF time_value # <<>> /\ HasColon(time_value)
    THEN LET parts == Split(time_value)
         IN  IF Len(parts) = 2
             THEN parts[1] \o <<":">> \o parts[2] \o <<":", "00">>
             ELSE time_value
    ELSE time_value

\* Mutant: a patient may set status like any other field
patient_update_data_sets_status(request_data) ==
    LET d1 == IF request_data.date # None
              THEN Put(EmptyDict, "date", request_data.date) ELSE EmptyDict
        d2 == IF request_data.time # None
              THEN Put(d1, "time", Some(format_time(Val(request_data.time)))) ELSE d1
        d3 == IF request_data.message # None
              THEN Put(d2, "message", Val(request_data.message)) ELSE d2
        d4 == IF request_data.status # None
              THEN Put(d3, "status", Val(request_data.status)) ELSE d3
    IN  [code |-> 200, update_data |-> d4]

\* Mutant: status is refused only when the body sets nothing else
patient_update_data_status_checked_on_empty(request_data) ==
    LET d1 == IF request_data.date # None
              THEN Put(EmptyDict, "date", request_data.date) ELSE EmptyDict
        d2 == IF request_data.time # None
              THEN Put(d1, "time", Some(format_time(Val(request_data.time)))) ELSE d1
        d3 == IF request_data.message # None
              THEN Put(d2, "message", Val(request_data.message)) ELSE d2
    IN  IF request_data.status # None /\ DOMAIN d3 = {}
        THEN [code |-> 403, update_data |-> d3]
        ELSE IF \E field \in {"date", "time", "message"} : field \in DOMAIN d3
        THEN [code |-> 200, update_data |-> Put(d3, "status", "pending")]
        ELSE [code |-> 200, update_data |-> d3]

\* Mutant: a patient may also set response
patient_update_data_sets_response(request_data) ==
    LET d1 == IF request_data.date # None
              THEN Put(EmptyDict, "date", request_data.date) ELSE EmptyDict
        d2 == IF request_data.time # None
              THEN Put(d1, "time", Some(format_time(Val(request_data.time)))) ELSE d1
        d3 == IF request_data.message # None
              THEN Put(d2, "message", Val(request_data.message)) ELSE d2
        d4 == IF request_data.response # None
              THEN Put(d3, "response", request_data.response) ELSE d3
    IN  IF request_data.status # None
        THEN [code |-> 403, update_data |-> d4]
        ELSE IF \E field \in {"date", "time", "message"} : field \in DOMAIN d4
        THEN [code |-> 200, update_data |-> Put(d4, "status", "pending")]
        ELSE [code |-> 200, update_data |-> d4]

\* the is_patient branch: the fields a patient may set, 403 on status,
\* and the reset of status to pending when date, time or message is set
patient_update_data(request_data) ==
    LET d1 == IF request_data.date # None
              THEN Put(EmptyDict, "date", request_data.date) ELSE EmptyDict
        d2 == IF request_data.time # None
              THEN Put(d1, "time", Some(format_time(Val(request_data.time)))) ELSE d1
        d3 == IF request_data.message # None
              THEN Put(d2, "message", Val(request_data.message)) ELSE d2
    IN  IF request_data.status # None
        THEN [code |-> 403, update_data |-> d3]
        ELSE IF \E field \in {"date", "time", "message"} : field \in DOMAIN d3
        THEN [code |-> 200, update_data |-> Put(d3, "status", "pending")]
        ELSE [code |-> 200, update_data |-> d3]

\* Mutant: the status a provider sends is stored without validation
provider_update_data_unvalidated(request_data, update_data) ==
    LET d1 == IF request_data.status # None
              THEN Put(update_data, "status", Val(request_data.status))
              ELSE update_data
        d2 == IF request_data.response # None
              THEN Put(d1, "response", request_data.response) ELSE d1
    IN  [code |-> 200, update_data |-> d2]

\* Mutant: a provider may set date and message too
provider_update_data_sets_content(request_data, update_data) ==
    IF request_data.status # None
       /\ Val(request_data.status) \notin {"pending", "approved", "rejected"}
    THEN [code |-> 400, update_data |-> update_data]
    ELSE LET d0 == IF request_data.date # None
                   THEN Put(update_data, "date", request_data.date) ELSE update_data
             dm == IF request_data.message # None
                   THEN Put(d0, "message", Val(request_data.message)) ELSE d0
             d1 == IF request_data.status # None
                   THEN Put(dm, "status", Val(request_data.status)) ELSE dm
             d2 == IF request_data.response # None
                   THEN Put(d1, "response", request_data.response) ELSE d1
         IN  [code |-> 200, update_data |-> d2]

\* the is_provider branch: status (validated) and response
provider_update_data(request_data, update_data) ==
    IF request_data.status # None
       /\ Val(request_data.status) \notin {"pending", "approved", "rejected"}
    THEN [code |-> 400, update_data |-> update_data]
    ELSE LET d1 == IF request_data.status # None
                   THEN Put(update_data, "status", Val(request_data.status))
                   ELSE update_data
             d2 == IF request_data.response # None
                   THEN Put(d1, "response", request_data.response) ELSE d1
         IN  [code |-> 200, update_data |-> d2]

update_request(table, current_user, request_id, request_data) ==
    LET request_result == SelectById(table, request_id)
        Fail(c) == [code |-> c, Requests |-> table]
    IN  IF request_result = {} THEN Fail(404)
        ELSE
        LET request == CHOOSE r \in request_result : TRUE
            is_patient == current_user.role = "patient"
                          /\ request.patient_id = current_user.id
            is_provider == current_user.role = "provider"
                           /\ request.provider_id = current_user.id
            pat == IF is_patient THEN patient_update_data(request_data)
                   ELSE [code |-> 200, update_data |-> EmptyDict]
            pro == IF is_provider THEN provider_update_data(request_data, pat.update_data)
                   ELSE [code |-> 200, update_data |-> pat.update_data]
        IN  IF ~is_patient /\ ~is_provider THEN Fail(403)
            ELSE IF pat.code # 200 THEN Fail(pat.code)
            ELSE IF pro.code # 200 THEN Fail(pro.code)
            ELSE IF DOMAIN pro.update_data = {} THEN Fail(400)
            ELSE LET result == UpdateById(table, request_id, pro.update_data)
                 IN  IF SelectById(result, request_id) = {} THEN Fail(500)
                     ELSE [code |-> 200, Requests |-> result]

\* update_request up to its write: the select, the ownership check and the
\* update_data built from the body.  0 stands for "goes on to the update";
\* request is the row the select returned (None when it returned none).
update_request_select(table, current_user, request_id, request_data) ==
    LET request_result == SelectById(table, request_id)
        Fail(c, r) == [code |-> c, update_data |-> EmptyDict, request |-> r]
    IN  IF request_result = {} THEN Fail(404, None)
        ELSE
        LET request == CHOOSE r \in request_result : TRUE
            is_patient == current_user.role = "patient"
                          /\ request.patient_id = current_user.id
            is_provider == current_user.role = "provider"
                           /\ request.provider_id = current_user.id
            pat == IF is_patient THEN patient_update_data(request_data)
                   ELSE [code |-> 200, update_data |-> EmptyDict]
            pro == IF is_provider THEN provider_update_data(request_data, pat.update_data)
                   ELSE [code |-> 200, update_data |-> pat.update_data]
        IN  IF ~is_patient /\ ~is_provider THEN Fail(403, Some(request))
            ELSE IF pat.code # 200 THEN Fail(pat.code, Some(request))
            ELSE IF pro.code # 200 THEN Fail(pro.code, Some(request))
            ELSE IF DOMAIN pro.update_data = {} THEN Fail(400, Some(request))
            ELSE [code |-> 0, update_data |-> pro.update_data,
                  request |-> Some(request)]

\* Mutant: the update writes the row back when it matches none
update_request_write_restores(table, request_id, update_data, request) ==
    IF SelectById(table, request_id) = {}
    THEN [code |-> 200, Requests |-> table \cup {ApplyUpdate(request, update_data)}]
    ELSE [code |-> 200, Requests |-> UpdateById(table, request_id, update_data)]

\* update_request from its write on: update(update_data).eq("appointment_id",
\* request_id) on the table as it is by then.  request is the row the select
\* had returned; the update does not read it.
update_request_write(table, request_id, update_data, request) ==
    LET result == UpdateById(table, request_id, update_data)
    IN  IF SelectById(result, request_id) = {}
        THEN [code |-> 500, Requests |-> table]
        ELSE [code |-> 200, Requests |-> result]

----------------------------------------------------------------------------
(* update_request of main.py, the handler mounted on the FastAPI app *)

main_format_time(time_value) ==
    IF time_value # <<>> /\ HasColon(time_value)
    THEN LET time_parts == Split(time_value)
         IN  IF Len(time_parts) = 2
             THEN time_value \o <<":", "00">>
             ELSE time_value
    ELSE time_value

main_patient_update_data(request_data) ==
    LET d1 == IF request_data.date # None
              THEN Put(EmptyDict, "date", request_data.date) ELSE EmptyDict
        d2 == IF request_data.time # None
              THEN Put(d1, "time", Some(main_format_time(Val(request_data.time)))) ELSE d1
        d3 == IF request_data.message # None
              THEN Put(d2, "message", Val(request_data.message)) ELSE d2
    IN  IF request_data.status # None
        THEN [code |-> 403, update_data |-> d3]
        ELSE [code |-> 200, update_data |-> d3]

main_provider_update_data(request_data, update_data) ==
    IF request_data.status # None
       /\ Val(request_data.status) \notin {"pending", "approved", "rejected"}
    THEN [code |-> 400, update_data |-> update_data]
    ELSE LET d1 == IF request_data.status # None
                   THEN Put(update_data, "status", Val(request_data.status))
                   ELSE update_data
             d2 == IF request_data.response # None
                   THEN Put(d1, "response", request_data.response) ELSE d1
         IN  [code |-> 200, update_data |-> d2]

main_update_request(table, current_user, request_id, request_data) ==
    LET request_result == SelectById(table, request_id)
        Fail(c) == [code |-> c, Requests |-> table]
    IN  IF request_result = {} THEN Fail(404)
        ELSE
        LET request == CHOOSE r \in request_result : TRUE
            is_patient == current_user.role = "patient"
                          /\ request.patient_id = current_user.id
            is_provider == current_user.role = "provider"
                           /\ request.provider_id = current_user.id
            pat == IF is_patient THEN main_patient_update_data(request_data)
                   ELSE [code |-> 200, update_data |-> EmptyDict]
            pro == IF is_provider
                   THEN main_provider_update_data(request_data, pat.update_data)
                   ELSE [code |-> 200, update_data |-> pat.update_data]
        IN  IF ~is_patient /\ ~is_provider THEN Fail(403)
            ELSE IF pat.code # 200 THEN Fail(pat.code)
            ELSE IF pro.code # 200 THEN Fail(pro.code)
            ELSE IF DOMAIN pro.update_data = {} THEN Fail(400)
            ELSE LET result == UpdateById(table, request_id, pro.update_data)
                 IN  IF SelectById(result, request_id) = {} THEN Fail(500)
                     ELSE [code |-> 200, Requests |-> result]

----------------------------------------------------------------------------
(* cancel_request and get_requests *)

\* Mutant: the delete is filtered by the caller, not by the request id
cancel_request_deletes_by_patient(table, current_user, request_id) ==
    IF current_user.role # "patient"
    THEN [code |-> 403, Requests |-> table]
    ELSE IF {r \in SelectById(table, request_id) : r.patient_id = current_user.id} = {}
    THEN [code |-> 404, Requests |-> table]
    ELSE [code |-> 200,
          Requests |-> {r \in table : r.patient_id # current_user.id}]

\* Mutant: the request is looked up by its id alone, whoever owns it
cancel_request_any_owner(table, current_user, request_id) ==
    IF current_user.role # "patient"
    THEN [code |-> 403, Requests |-> table]
    ELSE IF SelectById(table, request_id) = {}
    THEN [code |-> 404, Requests |-> table]
    ELSE [code |-> 200, Requests |-> DeleteById(table, request_id)]

cancel_request(table, current_user, request_id) ==
    IF current_user.role # "patient"
    THEN [code |-> 403, Requests |-> table]
    ELSE IF {r \in SelectById(table, request_id) : r.patient_id = current_user.id} = {}
    THEN [code |-> 404, Requests |-> table]
    ELSE [code |-> 200, Requests |-> DeleteById(table, request_id)]

\* the ids of the requests get_requests lists for the caller
get_requests(table, current_user) ==
    IF current_user.role = "patient"
    THEN {r.appointment_id : r \in {q \in table : q.patient_id = current_user.id}}
    ELSE IF current_user.role = "provider"
    THEN {r.appointment_id : r \in {q \in table : q.provider_id = current_user.id}}
    ELSE {}

\* cancel_request up to its delete: the role check and the select by
\* appointment_id and patient_id.  0 stands for "goes on to the delete".
cancel_request_select(table, current_user, request_id) ==
    IF current_user.role # "patient"
    THEN 403
    ELSE IF {r \in SelectById(table, request_id) : r.patient_id = current_user.id} = {}
    THEN 404
    ELSE 0

\* cancel_request from its delete on
cancel_request_delete(table, request_id) ==
    [code |-> 200, Requests |-> DeleteById(table, request_id)]

----------------------------------------------------------------------------
(* Text: a str is the sequence of its characters *)

\* str.lower() on the characters the model uses
Lower(c) ==
    CASE c = "A" -> "a" [] c = "B" -> "b" [] c = "N" -> "n" [] OTHER -> c

LowerText(s) == [i \in 1..Len(s) |-> Lower(s[i])]

\* p in s
Contains(s, p) ==
    \E i \in 0..(Len(s) - Len(p)) : SubSeq(s, i + 1, i + Len(p)) = p

\* column ILIKE '%pattern%'
ilike(value, pattern) == Contains(LowerText(value), LowerText(pattern))

\* str.strip()
RECURSIVE strip(_)
strip(s) ==
    IF s = <<>> THEN s
    ELSE IF Head(s) = " " THEN strip(Tail(s))
    ELSE IF s[Len(s)] = " " THEN strip(SubSeq(s, 1, Len(s) - 1))
    ELSE s

\* sep.join([part for part in parts if part])
RECURSIVE join(_, _)
join(sep, parts) ==
    IF parts = <<>> THEN <<>>
    ELSE IF Head(parts) = <<>> THEN join(sep, Tail(parts))
    ELSE LET rest == join(sep, Tail(parts))
         IN  IF rest = <<>> THEN Head(parts) ELSE Head(parts) \o sep \o rest

\* the fixed texts the normalizers fall back to
UnknownProvider == <<"Unknown Provider">>
NotSpecified == <<"Not specified">>
LocationNotAvailable == <<"Location not available">>

----------------------------------------------------------------------------
(* The Directory Store: the Providers table as search reads it *)

\* the order in which the store returns the rows of Providers
ProviderOrder == <<"provider-1", "provider-2", "provider-3">>

\* the columns of the row of each provider
ProvidersRow(provider_id) ==
    CASE provider_id = "provider-1" ->
           [provider_id |-> provider_id, provider_type |-> "individual",
            first_name |-> <<"A", "n">>, last_name |-> <<"L", "i">>,
            taxonomy |-> <<"G", "P">>, city |-> <<"B", "o">>, state |-> <<"M", "A">>]
      [] provider_id = "provider-2" ->
           [provider_id |-> provider_id, provider_type |-> "individual",
            first_name |-> <<"a", "n", "n">>, last_name |-> <<>>,
            taxonomy |-> <<>>, city |-> <<"N", "y">>, state |-> <<"N", "Y">>]
      [] OTHER ->
           [provider_id |-> provider_id, provider_type |-> "organization",
            first_name |-> <<>>, last_name |-> <<>>,
            taxonomy |-> <<"G", "P">>, city |-> <<"B", "o">>, state |-> <<>>]

\* one row of Providers as a canonical provider (rating, insurance and email,
\* which no search decision reads, are left out)
affiliated_result(provider) ==
    LET first == provider.first_name
        last_ == provider.last_name
    IN  [id |-> provider.provider_id,
         name |-> IF first # <<>> \/ last_ # <<>>
                  THEN strip(first \o <<" ">> \o last_) ELSE UnknownProvider,
         specialty |-> IF provider.taxonomy # <<>>
                       THEN provider.taxonomy ELSE NotSpecified,
         location |-> LET l == strip(join(<<",", " ">>,
                                          <<provider.city, provider.state>>))
                      IN  IF l # <<>> THEN l ELSE LocationNotAvailable,
         npi_number |-> <<>>,
         enumeration_type |-> IF provider.provider_type = "individual"
                              THEN "NPI-1" ELSE "NPI-2",
         is_affiliated |-> TRUE]

\* the columns the query of search_affiliated_providers filters on: one
\* ilike per argument that is neither None nor empty
directory_filters(first_name, last_name, taxonomy_description, city, state) ==
    {k \in {"first_name", "last_name", "taxonomy", "city", "state"} :
        \/ k = "first_name" /\ TruthyTime(first_name)
        \/ k = "last_name" /\ TruthyTime(last_name)
        \/ k = "taxonomy" /\ TruthyTime(taxonomy_description)
        \/ k = "city" /\ TruthyTime(city)
        \/ k = "state" /\ TruthyTime(state)}

\* the rows the filtered select returns, in store order
providers_query(providers, first_name, last_name, taxonomy_description, city, state) ==
    LET Keeps(r) ==
            /\ TruthyTime(first_name) => ilike(r.first_name, Val(first_name))
            /\ TruthyTime(last_name) => ilike(r.last_name, Val(last_name))
            /\ TruthyTime(taxonomy_description)
                   => ilike(r.taxonomy, Val(taxonomy_description))
            /\ TruthyTime(city) => ilike(r.city, Val(city))
            /\ TruthyTime(state) => ilike(r.state, Val(state))
        Stored(id) == id \in providers /\ Keeps(ProvidersRow(id))
    IN  SelectSeq(ProviderOrder, Stored)

\* query_fails: the store raises; the failure is logged and [] returned
search_affiliated_providers(providers, first_name, last_name, taxonomy_description, city, state, query_fails) ==
    IF query_fails THEN <<>>
    ELSE LET ids == providers_query(providers, first_name, last_name,
                                    taxonomy_description, city, state)
         IN  [i \in 1..Len(ids) |-> affiliated_result(ProvidersRow(ids[i]))]

----------------------------------------------------------------------------
(* transform_npi_result of Controllers/QueryController.py *)

\* dict.get(k, default)
Get(d, k, default) == IF k \in DOMAIN d THEN d[k] ELSE default

\* str(value) of a JSON value that is null or a string
str(o) == IF o = None THEN <<"N", "o", "n", "e">> ELSE Val(o)

\* Mutant: the first x is taken whether it passes or not
first_index_takes_first(tests) == IF Len(tests) > 0 THEN 1 ELSE 0

\* next((x for x in xs if test(x)), default): the index of the first x
\* that passes, tests being the outcome of the test on each x; 0 when none does
first_index(tests) ==
    IF \E i \in 1..Len(tests) : tests[i]
    THEN CHOOSE i \in 1..Len(tests) :
             tests[i] /\ \A j \in 1..(i - 1) : ~tests[j]
    ELSE 0

\* the canonical provider of a registry record, or None
transform_npi_result(npi_result) ==
    LET npi_number == IF "number" \in DOMAIN npi_result
                      THEN str(npi_result.number) ELSE <<>>
        basic_info == Get(npi_result, "basic", EmptyDict)
        marked == Get(basic_info, "enumeration_type", "")
        enumeration_type ==
            IF marked # "" THEN marked
            ELSE IF "organization_name" \in DOMAIN basic_info THEN "NPI-2"
            ELSE "NPI-1"
        individual ==
            LET name_parts == <<Get(basic_info, "first_name", <<>>),
                                Get(basic_info, "middle_name", <<>>),
                                Get(basic_info, "last_name", <<>>)>>
                credential == Get(basic_info, "credential", <<>>)
                n == strip(join(<<" ">>, name_parts))
            IN  IF credential # <<>> THEN n \o <<",", " ">> \o credential ELSE n
        name ==
            IF \/ enumeration_type = "NPI-1"
               \/ "first_name" \in DOMAIN basic_info
               \/ "last_name" \in DOMAIN basic_info
            THEN individual
            ELSE IF \/ enumeration_type = "NPI-2"
                    \/ "organization_name" \in DOMAIN basic_info
            THEN Get(basic_info, "organization_name", <<>>)
            ELSE <<>>
        taxonomies == Get(npi_result, "taxonomies", <<>>)
        specialty ==
            IF taxonomies = <<>> THEN <<>>
            ELSE LET i == first_index([k \in 1..Len(taxonomies) |->
                                           Get(taxonomies[k], "primary", FALSE)])
                 IN  IF i # 0 /\ DOMAIN taxonomies[i] # {}
                     THEN Get(taxonomies[i], "desc", <<>>)
                     ELSE Get(taxonomies[1], "desc", <<>>)
        addresses == Get(npi_result, "addresses", <<>>)
        primary_address ==
            LET i == first_index([k \in 1..Len(addresses) |->
                          Get(addresses[k], "address_purpose", "") = "LOCATION"])
            IN  IF i # 0 THEN addresses[i] ELSE addresses[1]
        location ==
            IF addresses = <<>> THEN <<>>
            ELSE strip(join(<<",", " ">>,
                            <<Get(primary_address, "city", <<>>),
                              Get(primary_address, "state", <<>>),
                              Get(primary_address, "postal_code", <<>>)>>))
        phone ==
            IF addresses = <<>> THEN <<>>
            ELSE Get(primary_address, "telephone_number", <<>>)
        endpoints == Get(npi_result, "endpoints", <<>>)
        email ==
            LET IsEmail(e) ==
                    \/ Contains(LowerText(Get(e, "endpoint_type", <<>>)), <<"email">>)
                    \/ Contains(LowerText(Get(e, "endpoint_description", <<>>)), <<"email">>)
                i == first_index([k \in 1..Len(endpoints) |-> IsEmail(endpoints[k])])
            IN  IF i # 0 /\ DOMAIN endpoints[i] # {}
                THEN Get(endpoints[i], "endpoint", <<>>) ELSE <<>>
    IN  IF npi_number = <<>> THEN None
        ELSE IF DOMAIN basic_info = {} THEN None
        ELSE IF name = <<>> THEN None
        ELSE Some([id |-> npi_number,
                   name |-> name,
                   specialty |-> IF specialty # <<>> THEN specialty ELSE NotSpecified,
                   location |-> IF location # <<>> THEN location
                                ELSE LocationNotAvailable,
                   phone |-> phone,
                   email |-> email,
                   npi_number |-> npi_number,
                   enumeration_type |-> enumeration_type])

----------------------------------------------------------------------------
(* search_providers *)

\* the query parameters that are supplied and not empty, with limit
search_params(q) ==
    LET Add(d, k) == IF TruthyTime(q[k]) THEN Put(d, k, Val(q[k])) ELSE d
        p1 == Add(EmptyDict, "number")
        p2 == Add(p1, "enumeration_type")
        p3 == Add(p2, "taxonomy_description")
        p4 == Add(p3, "first_name")
        p5 == Add(p4, "last_name")
        p6 == Add(p5, "organization_name")
        p7 == Add(p6, "city")
        p8 == Add(p7, "state")
        p9 == Add(p8, "postal_code")
        p10 == Add(p9, "country_code")
    IN  IF q.limit # 0 THEN Put(p10, "limit", q.limit) ELSE p10

\* Mutant: only an empty params dict counts as no search parameter
no_search_parameter_when_empty(params) ==
    DOMAIN params = {}

\* not params or (len(params) == 1 and "limit" in params)
no_search_parameter(params) ==
    DOMAIN params = {} \/ DOMAIN params = {"limit"}

\* xs[:limit] if limit else xs
slice(xs, limit) ==
    IF limit # 0 THEN SubSeq(xs, 1, IF limit < Len(xs) THEN limit ELSE Len(xs))
    ELSE xs

\* the records of a registry answer that normalize, marked not affiliated
RECURSIVE npi_results_of(_)
npi_results_of(results) ==
    IF results = <<>> THEN <<>>
    ELSE LET provider == transform_npi_result(Head(results))
         IN  IF provider # None
             THEN <<Put(Val(provider), "is_affiliated", FALSE)>>
                      \o npi_results_of(Tail(results))
             ELSE npi_results_of(Tail(results))

\* Mutant: the registry's providers are placed before the affiliated ones
all_results_registry_first(affiliated_results, npi_results, limit) ==
    LET combined == npi_results \o affiliated_results
    IN  IF limit # 0 /\ Len(combined) > limit
        THEN SubSeq(combined, 1, limit) ELSE combined

\* affiliated providers first, then the registry's, cut at limit
all_results(affiliated_results, npi_results, limit) ==
    LET combined == affiliated_results \o npi_results
    IN  IF limit # 0 /\ Len(combined) > limit
        THEN SubSeq(combined, 1, limit) ELSE combined

\* Mutant: the fallback answers with every affiliated provider found
affiliated_only_uncut(affiliated_results, limit, error) ==
    [code |-> 200,
     body |-> [result_count |-> Len(affiliated_results),
               results |-> affiliated_results,
               affiliated_count |-> Len(affiliated_results),
               npi_count |-> 0,
               api_result_count |-> 0,
               error |-> error]]

\* the answer when the registry call failed and affiliated providers exist
affiliated_only(affiliated_results, limit, error) ==
    [code |-> 200,
     body |-> [result_count |-> Len(affiliated_results),
               results |-> slice(affiliated_results, limit),
               affiliated_count |-> Len(affiliated_results),
               npi_count |-> 0,
               api_result_count |-> 0,
               error |-> error]]

\* Mutant: every registry failure without affiliated providers is a 502
registry_failure_always_502(affiliated_results, limit, reply) ==
    LET error == IF reply.kind = "status_error"
                 THEN <<"NPI Registry API error: ", reply.status_code>>
                 ELSE <<"Failed to connect to NPI Registry API: ", reply.kind>>
    IN  IF affiliated_results # <<>>
        THEN affiliated_only(affiliated_results, limit, error)
        ELSE [code |-> 502, body |-> [detail |-> error]]

\* except httpx.HTTPStatusError / except httpx.RequestError
registry_failure(affiliated_results, limit, reply) ==
    LET error == IF reply.kind = "status_error"
                 THEN <<"NPI Registry API error: ", reply.status_code>>
                 ELSE <<"Failed to connect to NPI Registry API: ", reply.kind>>
    IN  IF affiliated_results # <<>>
        THEN affiliated_only(affiliated_results, limit, error)
        ELSE [code |-> IF reply.kind = "status_error" THEN 502 ELSE 503,
              body |-> [detail |-> error]]

\* search_providers from the registry's reply on
search_providers_answer(q, affiliated_results, reply) ==
    IF reply.kind = "ok"
    THEN LET data == reply.data
             api_result_count == Get(data, "result_count", 0)
             npi_results == IF "results" \in DOMAIN data
                            THEN npi_results_of(data.results) ELSE <<>>
             results == all_results(affiliated_results, npi_results, q.limit)
         IN  [code |-> 200,
              body |-> [result_count |-> Len(results),
                        results |-> results,
                        affiliated_count |-> Len(affiliated_results),
                        npi_count |-> Len(npi_results),
                        api_result_count |-> api_result_count]]
    ELSE IF reply.kind \in {"status_error", "request_error"}
    THEN registry_failure(affiliated_results, q.limit, reply)
    ELSE [code |-> 500, body |-> [detail |-> <<"Error searching providers: ", reply.kind>>]]

\* a search_providers call: pc is its position, calls the backing sources it
\* has contacted so far
SearchIdle ==
    [pc |-> "idle", q |-> <<>>, query_fails |-> FALSE, calls |-> {},
     affiliated_results |-> <<>>, reply |-> <<>>, response |-> <<>>]

\* Mutant: a failure of the Directory Store query ends the search with 500
search_providers_directory_fatal(providers, q, query_fails) ==
    IF no_search_parameter(search_params(q))
    THEN [SearchIdle EXCEPT !.pc = "done", !.q = q,
              !.response = [code |-> 200,
                            body |-> [result_count |-> 0, results |-> <<>>]]]
    ELSE IF query_fails
    THEN [SearchIdle EXCEPT !.pc = "done", !.q = q, !.query_fails = TRUE,
              !.calls = {"directory"},
              !.response = [code |-> 500, body |-> [detail |-> <<"directory">>]]]
    ELSE [SearchIdle EXCEPT !.pc = "await", !.q = q, !.query_fails = query_fails,
              !.calls = {"directory", "registry"},
              !.affiliated_results =
                  search_affiliated_providers(providers, q.first_name, q.last_name,
                      q.taxonomy_description, q.city, q.state, query_fails)]

\* search_providers up to the await of the registry's reply
search_providers(providers, q, query_fails) ==
    IF no_search_parameter(search_params(q))
    THEN [SearchIdle EXCEPT !.pc = "done", !.q = q,
              !.response = [code |-> 200,
                            body |-> [result_count |-> 0, results |-> <<>>]]]
    ELSE [SearchIdle EXCEPT !.pc = "await", !.q = q, !.query_fails = query_fails,
              !.calls = {"directory", "registry"},
              !.affiliated_results =
                  search_affiliated_providers(providers, q.first_name, q.last_name,
                      q.taxonomy_description, q.city, q.state, query_fails)]

----------------------------------------------------------------------------
(* Favorites: add_favorite and remove_favorite of main.py *)

\* A row of FavProviders is a dict with favorite_id, patient_id and the
\* columns it sets among provider_id (a text) and provider_npi (a number).

\* select("*").eq("patient_id", user_id).eq("provider_id", provider_id)
SelectFavorite(table, user_id, provider_id) ==
    {r \in table : /\ r.patient_id = user_id
                   /\ "provider_id" \in DOMAIN r
                   /\ r.provider_id = provider_id}

\* the favorite_id the store gives an inserted row
NewFavoriteId(table) ==
    CHOOSE n \in 1..(Cardinality(table) + 1) : \A r \in table : r.favorite_id # n

\* add_favorite up to its select: the role check and the duplicate check.
\* 0 stands for "goes on to the insert".
add_favorite_select(table, current_user, provider_id) ==
    IF current_user.role # "patient"
    THEN 403
    ELSE IF SelectFavorite(table, current_user.id, provider_id) # {}
    THEN 409
    ELSE 0

\* add_favorite from its insert on.
\* insert_fails: the insert returns no row, or raises
add_favorite_insert(table, current_user, provider_id, insert_fails) ==
    IF insert_fails
    THEN [code |-> 500, FavProviders |-> table]
    ELSE [code |-> 200,
          FavProviders |-> table \cup
              {[favorite_id |-> NewFavoriteId(table),
                patient_id |-> current_user.id,
                provider_id |-> provider_id]}]

\* one call of add_favorite that no other call interleaves with
add_favorite(table, current_user, provider_id, insert_fails) ==
    LET code == add_favorite_select(table, current_user, provider_id)
    IN  IF code # 0
        THEN [code |-> code, FavProviders |-> table]
        ELSE add_favorite_insert(table, current_user, provider_id, insert_fails)

\* Mutant: removing a favorite that is not there is answered 404
remove_favorite_missing_is_404(table, current_user, provider_id) ==
    IF SelectFavorite(table, current_user.id, provider_id) = {}
    THEN [code |-> 404, FavProviders |-> table]
    ELSE [code |-> 200,
          FavProviders |-> table \ SelectFavorite(table, current_user.id, provider_id)]

\* delete().eq("patient_id", user_id).eq("provider_id", provider_id)
remove_favorite(table, current_user, provider_id) ==
    [code |-> 200,
     FavProviders |-> table \ SelectFavorite(table, current_user.id, provider_id)]

\* the provider_id of the rows of the Providers table that the favorites
\* calls read, as path text
FavoriteDirectory == {<<"p", "r", "o", "v", "-", "1">>}

\* get_favorite_providers.  The answer is the status code, the providers
\* returned (id and is_affiliated) and the numbers looked up at the registry.
\* omits_null: a row without provider_id comes back from the select without
\* the key (the tests' table) instead of with a null (the store), and
\* fav["provider_id"] raises.
get_favorite_providers(table, providers_table, current_user, omits_null) ==
    LET fav_result == {r \in table : r.patient_id = current_user.id}
        provider_ids ==
            {r.provider_id : r \in {x \in fav_result : "provider_id" \in DOMAIN x}}
    IN  IF current_user.role # "patient"
        THEN [code |-> 200, providers |-> {}, lookups |-> {}]
        ELSE IF fav_result = {}
        THEN [code |-> 200, providers |-> {}, lookups |-> {}]
        ELSE IF omits_null /\ \E r \in fav_result : "provider_id" \notin DOMAIN r
        THEN [code |-> 500, providers |-> {}, lookups |-> {}]
        ELSE [code |-> 200,
              providers |-> {[id |-> id, is_affiliated |-> TRUE] :
                                id \in providers_table \cap provider_ids},
              lookups |-> {}]

----------------------------------------------------------------------------
(* register of Controllers/AuthController.py *)

\* what supabase_auth.auth.sign_up does: it returns the new user, returns no
\* user, or raises with a message
SignUpOutcomes == {"user", "no user", "already registered", "password", "error"}

\* what the insert of the Directory row does: it returns the row, returns
\* no data, or raises with a message
InsertOutcomes == {"row", "no data", "patients_patient_id_fkey", "error"}

\* the status code of the except Exception branch for a message
register_error_code(detail) ==
    IF detail \in {"already registered", "already exists",
                   "patients_patient_id_fkey", "providers_provider_id_fkey"}
    THEN 409
    ELSE IF detail = "password" THEN 400
    ELSE 500

\* the insert of the row of user_id in Patients or Providers, and the answer
register_insert(table, user_id, insert) ==
    IF insert = "row" THEN [code |-> 201, table |-> table \cup {user_id}]
    ELSE IF insert = "no data" THEN [code |-> 201, table |-> table]
    ELSE [code |-> register_error_code(insert), table |-> table]

\* register.  The Auth Gateway gives the account of an email the id user_id.
register(accounts, patients, providers, credentials, user_id, sign_up, insert) ==
    LET Unchanged(c) == [code |-> c, Accounts |-> accounts,
                         Patients |-> patients, Providers |-> providers]
        signed == accounts \cup {[id |-> user_id, role |-> credentials.role]}
    IN  IF credentials.role \notin {"patient", "provider"} THEN Unchanged(400)
        ELSE IF sign_up = "no user" THEN Unchanged(400)
        ELSE IF sign_up # "user" THEN Unchanged(register_error_code(sign_up))
        ELSE IF credentials.role = "patient"
        THEN LET result == register_insert(patients, user_id, insert)
             IN  [code |-> result.code, Accounts |-> signed,
                  Patients |-> result.table, Providers |-> providers]
        ELSE LET result == register_insert(providers, user_id, insert)
             IN  [code |-> result.code, Accounts |-> signed,
                  Patients |-> patients, Providers |-> result.table]

----------------------------------------------------------------------------
(* The state machine *)

\* An HTTP exchange: a handler runs on the call (Requests changes and the
\* answer is recorded in last), then the answer is returned to the client.
\* last keeps the call, the status code and the table the handler found.
NoCall ==
    [op |-> "none", code |-> 0, user |-> [id |-> "", role |-> ""],
     request_id |-> 0, request_data |-> <<>>, before |-> {}]

Answer(op, res, u, id, d) ==
    [op |-> op, code |-> res.code, user |-> u,
     request_id |-> id, request_data |-> d, before |-> Requests]

\* no favorites call is being answered
NoFavCall ==
    [op |-> "none", code |-> 0, user |-> [id |-> "", role |-> ""],
     provider_id |-> <<>>, before |-> {}]

\* no registry record is being normalized
NoRecord == [pc |-> "idle"]

\* no register call is being answered
NoRegCall == [op |-> "none", code |-> 0, credentials |-> <<>>, user_id |-> ""]

\* no call runs side by side with another
NoInflight == <<>>

Init ==
    /\ inflight = NoInflight
    /\ Accounts = {}
    /\ Patients = {}
    /\ lastReg = NoRegCall
    /\ npi = NoRecord
    /\ Requests = {}
    /\ Providers = {"provider-1", "provider-2"}
    /\ nextId = 1
    /\ last = NoCall
    /\ search = SearchIdle
    /\ FavProviders = {}
    /\ lastFav = NoFavCall

CreateRequest(max, inputs) ==
    \E u \in Users, d \in inputs :
        /\ last = NoCall
        /\ nextId <= max
        /\ LET res == create_request(Requests, Providers, nextId, u, d)
           IN  /\ Requests' = res.Requests
               /\ nextId' = IF res.code = 200 THEN nextId + 1 ELSE nextId
               /\ last' = Answer("create_request", res, u, nextId, d)
        /\ UNCHANGED <<Providers, search, FavProviders, lastFav,
                     inflight, Accounts, Patients, lastReg, npi>>

UpdateRequest(ids, inputs) ==
    \E u \in Users, id \in ids, d \in inputs :
        /\ last = NoCall
        /\ LET res == update_request(Requests, u, id, d)
           IN  /\ Requests' = res.Requests
               /\ last' = Answer("update_request", res, u, id, d)
        /\ UNCHANGED <<Providers, nextId, search, FavProviders, lastFav,
                     inflight, Accounts, Patients, lastReg, npi>>

MainUpdateRequest(ids, inputs) ==
    \E u \in Users, id \in ids, d \in inputs :
        /\ last = NoCall
        /\ LET res == main_update_request(Requests, u, id, d)
           IN  /\ Requests' = res.Requests
               /\ last' = Answer("main_update_request", res, u, id, d)
        /\ UNCHANGED <<Providers, nextId, search, FavProviders, lastFav,
                     inflight, Accounts, Patients, lastReg, npi>>

CancelRequest(ids) ==
    \E u \in Users, id \in ids :
        /\ last = NoCall
        /\ LET res == cancel_request(Requests, u, id)
           IN  /\ Requests' = res.Requests
               /\ last' = Answer("cancel_request", res, u, id, <<>>)
        /\ UNCHANGED <<Providers, nextId, search, FavProviders, lastFav,
                     inflight, Accounts, Patients, lastReg, npi>>

\* the handler returns (or raises HTTPException): the exchange is over
Respond ==
    /\ last # NoCall
    /\ last' = NoCall
    /\ UNCHANGED <<Requests, Providers, nextId, search, FavProviders, lastFav,
                     inflight, Accounts, Patients, lastReg, npi>>

\* One request, every caller and every body of UpdateInputs
Next ==
    \/ CreateRequest(MaxRequests, CreateInputs)
    \/ UpdateRequest(1..MaxRequests, UpdateInputs)
    \/ MainUpdateRequest(1..MaxRequests, UpdateInputs)
    \/ CancelRequest(1..MaxRequests)
    \/ Respond

Spec == Init /\ [][Next]_vars

\* Several requests side by side, every caller, the bodies of RowsUpdateInputs
NextRows ==
    \/ CreateRequest(MaxRows, RowsCreateInputs)
    \/ UpdateRequest(1..MaxRows, RowsUpdateInputs)
    \/ MainUpdateRequest(1..MaxRows, RowsUpdateInputs)
    \/ CancelRequest(1..MaxRows)
    \/ Respond

SpecRows == Init /\ [][NextRows]_vars

----------------------------------------------------------------------------
(* The search state machine *)

\* the query strings of GET /api/providers/search; a parameter is absent,
\* empty or a text. The parameters left absent here are handled by the same
\* lines as number (sent to the registry only) or as first_name and city
\* (also filters of the Providers query).
SearchInputs ==
    [number : {None, Some(<<"1234567890">>)},
     enumeration_type : {None},
     taxonomy_description : {None},
     first_name : {None, Some(<<>>), Some(<<"a", "n">>)},
     last_name : {None},
     organization_name : {None},
     city : {None, Some(<<"b", "o">>)},
     state : {None},
     postal_code : {None},
     country_code : {None},
     limit : 1..MaxLimit]

\* raw records of the registry: an individual, an organization without
\* enumeration_type, and a record without number
RegistryRecords ==
    { [number |-> Some(<<"1234567890">>),
       basic |-> [enumeration_type |-> "NPI-1",
                  first_name |-> <<"A", "l">>, last_name |-> <<"J", "o">>],
       taxonomies |-> <<[desc |-> <<"I", "M">>, primary |-> TRUE]>>,
       addresses |-> <<[address_purpose |-> "LOCATION", city |-> <<"U", "r">>,
                        state |-> <<"I", "L">>, postal_code |-> <<"61820">>,
                        telephone_number |-> <<"5551234567">>]>>],
      [number |-> Some(<<"1098765432">>),
       basic |-> [organization_name |-> <<"C", "o">>]],
      [basic |-> [enumeration_type |-> "NPI-1", first_name |-> <<"N", "o">>]] }

SeqsUpTo(S, n) == UNION {[1..k -> S] : k \in 0..n}

\* what the registry call does: a 2xx answer with JSON data (the records it
\* lists, or an object without result_count and results), a non-2xx status,
\* a network-level failure, or a 2xx answer whose body is not JSON
RegistryReplyInputs ==
    {[kind |-> "ok", data |-> [result_count |-> Len(rs), results |-> rs]] :
        rs \in SeqsUpTo(RegistryRecords, MaxRegistryResults)}
    \cup {[kind |-> "ok", data |-> EmptyDict],
          [kind |-> "status_error", status_code |-> "500"],
          [kind |-> "request_error"],
          [kind |-> "invalid_json"]}

InitSearch ==
    /\ inflight = NoInflight
    /\ Accounts = {}
    /\ Patients = {}
    /\ lastReg = NoRegCall
    /\ npi = NoRecord
    /\ Requests = {}
    /\ Providers \in SUBSET {ProviderOrder[i] : i \in 1..Len(ProviderOrder)}
    /\ nextId = 1
    /\ last = NoCall
    /\ search = SearchIdle
    /\ FavProviders = {}
    /\ lastFav = NoFavCall

\* the handler runs up to the await of the registry's reply
SearchProviders ==
    \E q \in SearchInputs, query_fails \in BOOLEAN :
        /\ search.pc = "idle"
        /\ search' = search_providers(Providers, q, query_fails)
        /\ UNCHANGED <<Requests, Providers, nextId, last, FavProviders, lastFav,
                     inflight, Accounts, Patients, lastReg, npi>>

\* the registry call returns or raises; the handler builds its answer
RegistryReplies ==
    \E reply \in RegistryReplyInputs :
        /\ search.pc = "await"
        /\ search' = [search EXCEPT !.pc = "done", !.reply = reply,
                          !.response = search_providers_answer(
                              search.q, search.affiliated_results, reply)]
        /\ UNCHANGED <<Requests, Providers, nextId, last, FavProviders, lastFav,
                     inflight, Accounts, Patients, lastReg, npi>>

\* the answer is returned to the client
SearchRespond ==
    /\ search.pc = "done"
    /\ search' = SearchIdle
    /\ UNCHANGED <<Requests, Providers, nextId, last, FavProviders, lastFav,
                     inflight, Accounts, Patients, lastReg, npi>>

NextSearch ==
    \/ SearchProviders
    \/ RegistryReplies
    \/ SearchRespond

SpecSearch == InitSearch /\ [][NextSearch]_vars

----------------------------------------------------------------------------
(* The favorites state machine *)

\* the {provider_id} of the path: a directory id, a 10-digit registry
\* number, a number of 9 digits
NpiText == <<"1", "2", "3", "4", "5", "6", "7", "8", "9", "0">>
FavoriteIdInputs ==
    {<<"p", "r", "o", "v", "-", "1">>, NpiText, SubSeq(NpiText, 1, 9)}

\* the FavProviders tables a behaviour starts from: the empty table, and
\* the table holding a favorite of patient-1 keyed by provider_npi
FavoriteTables ==
    {{}, {[favorite_id |-> 1, patient_id |-> "patient-1", provider_npi |-> 1234567890]}}

InitFavorites ==
    /\ inflight = NoInflight
    /\ Accounts = {}
    /\ Patients = {}
    /\ lastReg = NoRegCall
    /\ npi = NoRecord
    /\ Requests = {}
    /\ Providers = {"provider-1", "provider-2"}
    /\ nextId = 1
    /\ last = NoCall
    /\ search = SearchIdle
    /\ FavProviders \in FavoriteTables
    /\ lastFav = NoFavCall

FavAnswer(op, res, u, id) ==
    [op |-> op, code |-> res.code, user |-> u, provider_id |-> id,
     before |-> FavProviders]

AddFavorite ==
    \E u \in Users, id \in FavoriteIdInputs, insert_fails \in BOOLEAN :
        /\ lastFav = NoFavCall
        /\ Cardinality(FavProviders) < MaxFavorites
        /\ LET res == add_favorite(FavProviders, u, id, insert_fails)
           IN  /\ FavProviders' = res.FavProviders
               /\ lastFav' = FavAnswer("add_favorite", res, u, id)
        /\ UNCHANGED <<Requests, Providers, nextId, last, search,
                     inflight, Accounts, Patients, lastReg, npi>>

RemoveFavorite ==
    \E u \in Users, id \in FavoriteIdInputs :
        /\ lastFav = NoFavCall
        /\ LET res == remove_favorite(FavProviders, u, id)
           IN  /\ FavProviders' = res.FavProviders
               /\ lastFav' = FavAnswer("remove_favorite", res, u, id)
        /\ UNCHANGED <<Requests, Providers, nextId, last, search,
                     inflight, Accounts, Patients, lastReg, npi>>

\* npi_fails: the numbers whose registry lookup would fail
GetFavoriteProviders ==
    \E u \in Users, omits_null \in BOOLEAN, npi_fails \in SUBSET {1234567890} :
        /\ lastFav = NoFavCall
        /\ LET res == get_favorite_providers(FavProviders, FavoriteDirectory, u, omits_null)
           IN  lastFav' = [op |-> "get_favorite_providers", code |-> res.code,
                           user |-> u, provider_id |-> <<>>,
                           before |-> FavProviders, providers |-> res.providers,
                           lookups |-> res.lookups, npi_fails |-> npi_fails]
        /\ UNCHANGED <<Requests, Providers, nextId, last, search, FavProviders,
                       inflight, Accounts, Patients, lastReg, npi>>

\* the handler returns (or raises HTTPException)
FavRespond ==
    /\ lastFav # NoFavCall
    /\ lastFav' = NoFavCall
    /\ UNCHANGED <<Requests, Providers, nextId, last, search, FavProviders,
                     inflight, Accounts, Patients, lastReg, npi>>

NextFavorites ==
    \/ AddFavorite
    \/ RemoveFavorite
    \/ GetFavoriteProviders
    \/ FavRespond

SpecFavorites == InitFavorites /\ [][NextFavorites]_vars

(***************************************************************************)
(* Favorites calls side by side.  The Directory Store is shared by every   *)
(* server process and by every client of the database, and the handlers    *)
(* take no lock and open no transaction: between the select of one call    *)
(* and its insert, the store serves the calls of others.  Each store call  *)
(* is one step.                                                            *)
(***************************************************************************)
Callers == {"call-1", "call-2"}

Idle == [pc |-> "idle"]

InitFavRace ==
    /\ inflight = [c \in Callers |-> Idle]
    /\ Accounts = {}
    /\ Patients = {}
    /\ lastReg = NoRegCall
    /\ npi = NoRecord
    /\ Requests = {}
    /\ Providers = {"provider-1", "provider-2"}
    /\ nextId = 1
    /\ last = NoCall
    /\ search = SearchIdle
    /\ FavProviders = {}
    /\ lastFav = NoFavCall

\* main.py 821-837: the call starts, checks the role and selects the
\* favorite it is about to insert
AddFavoriteSelect(c) ==
    \E u \in Users, id \in FavoriteIdInputs :
        /\ inflight[c] = Idle
        /\ LET code == add_favorite_select(FavProviders, u, id)
           IN  inflight' = [inflight EXCEPT ![c] =
                   [pc |-> IF code = 0 THEN "insert" ELSE "done",
                    op |-> "add_favorite", code |-> code,
                    current_user |-> u, provider_id |-> id]]
        /\ UNCHANGED <<Requests, Providers, nextId, last, search, FavProviders,
                       lastFav, Accounts, Patients, lastReg, npi>>

\* main.py 840-849: the insert, on the table as it is by then
AddFavoriteInsert(c) ==
    \E insert_fails \in BOOLEAN :
        /\ inflight[c].pc = "insert"
        /\ inflight[c].op = "add_favorite"
        /\ Cardinality(FavProviders) < MaxFavorites
        /\ LET res == add_favorite_insert(FavProviders, inflight[c].current_user,
                                          inflight[c].provider_id, insert_fails)
           IN  /\ FavProviders' = res.FavProviders
               /\ inflight' = [inflight EXCEPT ![c].pc = "done",
                                               ![c].code = res.code]
        /\ UNCHANGED <<Requests, Providers, nextId, last, search, lastFav,
                       Accounts, Patients, lastReg, npi>>

\* main.py 862-874: remove_favorite is one store call
RaceRemoveFavorite(c) ==
    \E u \in Users, id \in FavoriteIdInputs :
        /\ inflight[c] = Idle
        /\ LET res == remove_favorite(FavProviders, u, id)
           IN  /\ FavProviders' = res.FavProviders
               /\ inflight' = [inflight EXCEPT ![c] =
                       [pc |-> "done", op |-> "remove_favorite",
                        code |-> res.code, current_user |-> u,
                        provider_id |-> id]]
        /\ UNCHANGED <<Requests, Providers, nextId, last, search, lastFav,
                       Accounts, Patients, lastReg, npi>>

\* the handler returns (or raises HTTPException)
FavRaceReturn(c) ==
    /\ inflight[c].pc = "done"
    /\ inflight' = [inflight EXCEPT ![c] = Idle]
    /\ UNCHANGED <<Requests, Providers, nextId, last, search, FavProviders,
                   lastFav, Accounts, Patients, lastReg, npi>>

NextFavRace ==
    \/ \E c \in Callers : AddFavoriteSelect(c)
    \/ \E c \in Callers : AddFavoriteInsert(c)
    \/ \E c \in Callers : RaceRemoveFavorite(c)
    \/ \E c \in Callers : FavRaceReturn(c)

SpecFavRace == InitFavRace /\ [][NextFavRace]_vars

----------------------------------------------------------------------------
(* Request calls side by side: each caller makes one call of update_request *)
(* or cancel_request on the request of patient-1 with provider-1, and each  *)
(* store call of a handler is one step.                                      *)

\* the Requests table the calls find: the row create_request inserted
RaceRequests ==
    create_request({}, {"provider-1"}, 1, [id |-> "patient-1", role |-> "patient"],
                   CHOOSE d \in RowsCreateInputs : TRUE).Requests

InitRequestRace ==
    /\ inflight = [c \in Callers |-> Idle]
    /\ Accounts = {}
    /\ Patients = {}
    /\ lastReg = NoRegCall
    /\ npi = NoRecord
    /\ Requests = RaceRequests
    /\ Providers = {"provider-1", "provider-2"}
    /\ nextId = 2
    /\ last = NoCall
    /\ search = SearchIdle
    /\ FavProviders = {}
    /\ lastFav = NoFavCall

\* RequestController.py 229-289: the select, the checks, update_data
UpdateRequestSelect(c) ==
    \E u \in Users, d \in RowsUpdateInputs :
        /\ inflight[c] = Idle
        /\ LET res == update_request_select(Requests, u, 1, d)
           IN  inflight' = [inflight EXCEPT ![c] =
                   [pc |-> IF res.code = 0 THEN "write" ELSE "done",
                    op |-> "update_request", code |-> res.code,
                    current_user |-> u, request_id |-> 1, request_data |-> d,
                    update_data |-> res.update_data, request |-> res.request,
                    found |-> {}]]
        /\ UNCHANGED <<Requests, Providers, nextId, last, search, FavProviders,
                       lastFav, Accounts, Patients, lastReg, npi>>

\* RequestController.py 291-304: the update, on the table as it is by then;
\* found keeps the rows the update matched
UpdateRequestWrite(c) ==
    /\ inflight[c].pc = "write"
    /\ inflight[c].op = "update_request"
    /\ LET res == update_request_write(Requests, inflight[c].request_id,
                                       inflight[c].update_data,
                                       Val(inflight[c].request))
       IN  /\ Requests' = res.Requests
           /\ inflight' = [inflight EXCEPT
                  ![c].pc = "done", ![c].code = res.code,
                  ![c].found = SelectById(Requests, inflight[c].request_id)]
    /\ UNCHANGED <<Providers, nextId, last, search, FavProviders, lastFav,
                   Accounts, Patients, lastReg, npi>>

\* RequestController.py 318-339: the role check and the select
CancelRequestSelect(c) ==
    \E u \in Users :
        /\ inflight[c] = Idle
        /\ LET code == cancel_request_select(Requests, u, 1)
           IN  inflight' = [inflight EXCEPT ![c] =
                   [pc |-> IF code = 0 THEN "delete" ELSE "done",
                    op |-> "cancel_request", code |-> code,
                    current_user |-> u, request_id |-> 1, request_data |-> <<>>,
                    update_data |-> EmptyDict, request |-> None, found |-> {}]]
        /\ UNCHANGED <<Requests, Providers, nextId, last, search, FavProviders,
                       lastFav, Accounts, Patients, lastReg, npi>>

\* RequestController.py 341: the delete
CancelRequestDelete(c) ==
    /\ inflight[c].pc = "delete"
    /\ LET res == cancel_request_delete(Requests, inflight[c].request_id)
       IN  /\ Requests' = res.Requests
           /\ inflight' = [inflight EXCEPT
                  ![c].pc = "done", ![c].code = res.code,
                  ![c].found = SelectById(Requests, inflight[c].request_id)]
    /\ UNCHANGED <<Providers, nextId, last, search, FavProviders, lastFav,
                   Accounts, Patients, lastReg, npi>>

NextRequestRace ==
    \/ \E c \in Callers : UpdateRequestSelect(c)
    \/ \E c \in Callers : UpdateRequestWrite(c)
    \/ \E c \in Callers : CancelRequestSelect(c)
    \/ \E c \in Callers : CancelRequestDelete(c)

SpecRequestRace == InitRequestRace /\ [][NextRequestRace]_vars

----------------------------------------------------------------------------
(* The register state machine *)

Emails == {"patient@example.com", "provider@example.com", "user@example.com"}

\* the id the Auth Gateway gives the account of an email
UserIdOf(email) ==
    CASE email = "patient@example.com" -> "user-1"
      [] email = "provider@example.com" -> "user-2"
      [] OTHER -> "user-3"

\* the bodies of POST /api/auth/register: the fields register branches on
RegisterInputs == [email : Emails, role : {"patient", "provider", "admin"}]

InitRegister ==
    /\ inflight = NoInflight
    /\ Accounts = {}
    /\ Patients = {}
    /\ lastReg = NoRegCall
    /\ npi = NoRecord
    /\ Requests = {}
    /\ Providers = {}
    /\ nextId = 1
    /\ last = NoCall
    /\ search = SearchIdle
    /\ FavProviders = {}
    /\ lastFav = NoFavCall

\* sign_up creates the user only for an email that has no account yet
Register ==
    \E credentials \in RegisterInputs, sign_up \in SignUpOutcomes,
       insert \in InsertOutcomes :
        /\ lastReg = NoRegCall
        /\ sign_up = "user" => \A a \in Accounts : a.id # UserIdOf(credentials.email)
        /\ LET res == register(Accounts, Patients, Providers, credentials,
                               UserIdOf(credentials.email), sign_up, insert)
           IN  /\ Accounts' = res.Accounts
               /\ Patients' = res.Patients
               /\ Providers' = res.Providers
               /\ lastReg' = [op |-> "register", code |-> res.code,
                              credentials |-> credentials,
                              user_id |-> UserIdOf(credentials.email),
                              sign_up |-> sign_up, insert |-> insert]
        /\ UNCHANGED <<Requests, nextId, last, search, FavProviders, lastFav,
                       inflight, npi>>

\* the handler returns (or raises HTTPException)
RegisterRespond ==
    /\ lastReg # NoRegCall
    /\ lastReg' = NoRegCall
    /\ UNCHANGED <<Requests, Providers, nextId, last, search, FavProviders,
                   lastFav, inflight, Accounts, Patients, npi>>

NextRegister ==
    \/ Register
    \/ RegisterRespond

SpecRegister == InitRegister /\ [][NextRegister]_vars

----------------------------------------------------------------------------
(* The normalizer on its own: transform_npi_result on the registry records *)

\* the top-level number of a record: absent, null, empty, or a number
NumberInputs ==
    {EmptyDict, [number |-> None], [number |-> Some(<<>>)],
     [number |-> Some(<<"1234567890">>)]}

\* the name block of a record: absent, empty, or with the marker and the
\* name fields in every combination
BasicInputs ==
    {EmptyDict, [basic |-> EmptyDict]} \cup
    {[basic |-> marker @@ first_name @@ last_name @@ organization_name] :
        marker \in {EmptyDict, [enumeration_type |-> "NPI-1"],
                    [enumeration_type |-> "NPI-2"]},
        first_name \in {EmptyDict, [first_name |-> <<"A", "l">>]},
        last_name \in {EmptyDict, [last_name |-> <<"J", "o">>]},
        organization_name \in {EmptyDict, [organization_name |-> <<"C", "o">>]}}

\* a taxonomy entry: flagged primary, flagged not primary, or not flagged
TaxonomyEntries ==
    {[desc |-> <<"I", "M">>, primary |-> TRUE],
     [desc |-> <<"E", "R">>, primary |-> FALSE],
     [desc |-> <<"G", "P">>]}

\* the taxonomy list of a record: absent, or a list of entries
TaxonomyInputs ==
    {EmptyDict} \cup {[taxonomies |-> t] : t \in SeqsUpTo(TaxonomyEntries, MaxTaxonomies)}

\* the raw registry records
NpiResultInputs ==
    {number @@ basic @@ taxonomies :
        number \in NumberInputs, basic \in BasicInputs, taxonomies \in TaxonomyInputs}

InitNormalize ==
    /\ inflight = NoInflight
    /\ Accounts = {}
    /\ Patients = {}
    /\ lastReg = NoRegCall
    /\ Requests = {}
    /\ Providers = {}
    /\ nextId = 1
    /\ last = NoCall
    /\ search = SearchIdle
    /\ FavProviders = {}
    /\ lastFav = NoFavCall
    /\ npi \in {[pc |-> "given", npi_result |-> r] : r \in NpiResultInputs}

\* provider = transform_npi_result(result)
TransformNpiResult ==
    /\ npi.pc = "given"
    /\ npi' = [pc |-> "transformed", npi_result |-> npi.npi_result,
               provider |-> transform_npi_result(npi.npi_result)]
    /\ UNCHANGED <<Requests, Providers, nextId, last, search, FavProviders,
                   lastFav, inflight, Accounts, Patients, lastReg>>

NextNormalize == TransformNpiResult

SpecNormalize == InitNormalize /\ [][NextNormalize]_vars

----------------------------------------------------------------------------
(* Reading an answered call *)

UpdateOps == {"update_request", "main_update_request"}

Has(table, request_id) == SelectById(table, request_id) # {}
RowOf(table, request_id) == CHOOSE r \in table : r.appointment_id = request_id

\* the request the last call named, as the handler found it and as it left it
Before == RowOf(last.before, last.request_id)
After == RowOf(Requests, last.request_id)

\* the last call was an update_request call on a stored request ...
UpdateOnStored == last.op \in UpdateOps /\ Has(last.before, last.request_id)
\* ... by the patient who owns it
ByOwningPatient ==
    UpdateOnStored /\ last.user.role = "patient" /\ Before.patient_id = last.user.id
\* ... by the provider it is addressed to
ByOwningProvider ==
    UpdateOnStored /\ last.user.role = "provider" /\ Before.provider_id = last.user.id

ContentOf(row) == <<row.date, row.time, row.message>>
SuppliesContent(d) == d.date # None \/ d.time # None \/ d.message # None

----------------------------------------------------------------------------
(* Claims *)

\* C1: whatever the status of a stored request, a successful update_request
\* call by the patient who owns it that changes date, time or message leaves
\* the request with status pending.
C1_PatientEditLeavesPending ==
    (ByOwningPatient /\ last.code = 200 /\ ContentOf(After) # ContentOf(Before))
        => After.status = "pending"

\* C2: a successful update_request call by the owning patient that changes
\* date, time or message on a request carrying a provider response leaves
\* the request with response null.
C2_PatientEditClearsResponse ==
    (ByOwningPatient /\ last.code = 200 /\ ContentOf(After) # ContentOf(Before)
        /\ Before.response # None)
        => After.response = None

\* C3: a request's status becomes approved or rejected only by an
\* update_request call of the provider the request is addressed to.
C3_OnlyOwningProviderDecides ==
    last # NoCall =>
        \A r \in Requests :
            (/\ r.status \in {"approved", "rejected"}
             /\ ~ \E b \in last.before :
                    b.appointment_id = r.appointment_id /\ b.status = r.status)
            => /\ last.op \in UpdateOps
               /\ last.request_id = r.appointment_id
               /\ last.user.role = "provider"
               /\ last.user.id = r.provider_id
               /\ Has(last.before, r.appointment_id)
               /\ Before.provider_id = last.user.id

C3_Witness ==
    /\ ByOwningProvider
    /\ last.code = 200
    /\ Before.status = "pending"
    /\ After.status = "approved"

\* C4: an update_request call by the owning patient that supplies status is
\* answered 403 whatever the status value and whatever else it supplies, and
\* the stored requests are left as they were.
C4_PatientStatusForbidden ==
    (ByOwningPatient /\ last.request_data.status # None)
        => last.code = 403 /\ Requests = last.before

\* the patient sends the status already stored, together with a new message
C4_Witness ==
    /\ ByOwningPatient
    /\ last.request_data.status = Some(Before.status)
    /\ last.request_data.message # None
    /\ Val(last.request_data.message) # Before.message
    /\ last.code = 403
    /\ After = Before

\* C5: every stored request has status pending, approved or rejected; an
\* update_request call by the owning provider with another status is answered
\* 400 and leaves the stored requests as they were, also when it supplies a
\* response.
C5_StatusInClosedSet ==
    /\ \A r \in Requests : r.status \in {"pending", "approved", "rejected"}
    /\ (ByOwningProvider /\ last.request_data.status # None
          /\ Val(last.request_data.status) \notin {"pending", "approved", "rejected"})
        => last.code = 400 /\ Requests = last.before

C5_Witness ==
    /\ ByOwningProvider
    /\ last.request_data.status = Some("maybe")
    /\ last.request_data.response # None
    /\ Before.response = None
    /\ last.code = 400
    /\ After = Before

\* C6: no update_request call by a provider changes date, time or message of
\* a stored request, whatever it supplies and whatever the answer; a call of
\* the owning provider that supplies only date, time or message is answered 400.
C6_ProviderNeverEditsContent ==
    (last.op \in UpdateOps /\ last.user.role = "provider")
        => /\ \A b \in last.before : \E r \in Requests :
                  r.appointment_id = b.appointment_id /\ ContentOf(r) = ContentOf(b)
           /\ (ByOwningProvider /\ SuppliesContent(last.request_data)
                 /\ last.request_data.status = None
                 /\ last.request_data.response = None)
               => last.code = 400 /\ Requests = last.before

\* the provider's call succeeds and supplies a time and a message the request
\* does not have
C6_Witness ==
    /\ ByOwningProvider
    /\ last.code = 200
    /\ last.request_data.time # None
    /\ Before.time = None
    /\ last.request_data.message # None
    /\ Val(last.request_data.message) # Before.message
    /\ ContentOf(After) = ContentOf(Before)
    /\ After.status = "rejected"

\* C7: create_request by a patient naming a provider of the Providers table
\* inserts exactly one request, with patient_id the caller, the provider_id
\* and message given, and status pending whatever the body carries.
C7_CreateInsertsPending ==
    (last.op = "create_request" /\ last.user.role = "patient"
        /\ last.request_data.provider_id \in Providers)
        => /\ last.code = 200
           /\ \E r \in Requests :
                /\ r \notin last.before
                /\ Requests = last.before \cup {r}
                /\ \A b \in last.before : b.appointment_id # r.appointment_id
                /\ r.patient_id = last.user.id
                /\ r.provider_id = last.request_data.provider_id
                /\ r.message = last.request_data.message
                /\ r.status = "pending"

\* the body carried status approved; the request is stored pending
C7_Witness ==
    /\ last.op = "create_request"
    /\ last.code = 200
    /\ last.request_data.status = Some("approved")
    /\ Has(Requests, last.request_id)
    /\ After.status = "pending"
    /\ After.patient_id = "patient-2"

\* C8: create_request by a caller who is not a patient is answered 403, by a
\* patient naming a provider_id absent from Providers 404; neither inserts.
C8_CreateRejections ==
    last.op = "create_request" =>
        /\ last.user.role # "patient" => last.code = 403 /\ Requests = last.before
        /\ (last.user.role = "patient" /\ last.request_data.provider_id \notin Providers)
            => last.code = 404 /\ Requests = last.before

C8_Witness ==
    /\ last.op = "create_request"
    /\ last.user.role = "patient"
    /\ last.request_data.provider_id = "prov-unknown"
    /\ last.code = 404
    /\ Requests = last.before

\* the fields of a body that the role may set
SuppliesSettable(role, d) ==
    IF role = "patient" THEN SuppliesContent(d)
    ELSE d.status # None \/ d.response # None

\* C9 as stated: update_request answers 404 when no request has the id, 403
\* when the caller owns the request neither as patient nor as provider, 400
\* when the body supplies no field the caller's role may set; no request is
\* modified in these cases.
C9_UpdateRejections_AsStated ==
    last.op \in UpdateOps =>
        /\ ~Has(last.before, last.request_id)
            => last.code = 404 /\ Requests = last.before
        /\ (UpdateOnStored /\ ~ByOwningPatient /\ ~ByOwningProvider)
            => last.code = 403 /\ Requests = last.before
        /\ ((ByOwningPatient \/ ByOwningProvider)
              /\ ~SuppliesSettable(last.user.role, last.request_data))
            => last.code = 400 /\ Requests = last.before

\* C9 amended: as stated, except that the owning patient's call that supplies
\* status (and no date, time or message) is answered 403, not 400.
C9_UpdateRejections ==
    last.op \in UpdateOps =>
        /\ ~Has(last.before, last.request_id)
            => last.code = 404 /\ Requests = last.before
        /\ (UpdateOnStored /\ ~ByOwningPatient /\ ~ByOwningProvider)
            => last.code = 403 /\ Requests = last.before
        /\ ((ByOwningPatient \/ ByOwningProvider)
              /\ ~SuppliesSettable(last.user.role, last.request_data))
            => /\ Requests = last.before
               /\ last.code =
                    IF ByOwningPatient /\ last.request_data.status # None
                    THEN 403 ELSE 400

\* the owning patient supplies a response and nothing a patient may set
C9_Witness ==
    /\ ByOwningPatient
    /\ last.request_data.response # None
    /\ last.request_data.status = None
    /\ ~SuppliesContent(last.request_data)
    /\ last.code = 400
    /\ After = Before

\* C10: cancel_request by the patient who owns the request removes that
\* request and no other; it is then in no caller's list and update_request
\* on its id answers 404.
C10_CancelRemovesOnlyThatRequest ==
    (/\ last.op = "cancel_request"
     /\ last.user.role = "patient"
     /\ Has(last.before, last.request_id)
     /\ Before.patient_id = last.user.id)
    => /\ last.code = 200
       /\ Requests = last.before \ {Before}
       /\ \A u \in Users :
            /\ last.request_id \notin get_requests(Requests, u)
            /\ \A d \in RowsUpdateInputs :
                 /\ update_request(Requests, u, last.request_id, d).code = 404
                 /\ main_update_request(Requests, u, last.request_id, d).code = 404

\* the patient cancels one of two requests of theirs; the other, already
\* approved, stays
C10_Witness ==
    /\ last.op = "cancel_request"
    /\ last.code = 200
    /\ ~Has(Requests, last.request_id)
    /\ \E r \in Requests :
         /\ r.patient_id = last.user.id
         /\ r.status = "approved"
         /\ r \in last.before

\* C11: cancel_request by a caller who is not a patient is answered 403; by a
\* patient for an id no request has, or for a request of another patient, 404;
\* in both cases no request is deleted.
C11_CancelRejections ==
    last.op = "cancel_request" =>
        /\ last.user.role # "patient" => last.code = 403 /\ Requests = last.before
        /\ (last.user.role = "patient"
              /\ (~Has(last.before, last.request_id)
                    \/ Before.patient_id # last.user.id))
            => last.code = 404 /\ Requests = last.before

\* a patient names the request of another patient; it stays stored
C11_Witness ==
    /\ last.op = "cancel_request"
    /\ last.user.role = "patient"
    /\ Has(last.before, last.request_id)
    /\ Before.patient_id # last.user.id
    /\ last.code = 404
    /\ Has(Requests, last.request_id)
    /\ After = Before

----------------------------------------------------------------------------
(* Reading an answered search *)

SearchDone == search.pc = "done"
Body == search.response.body
Min(a, b) == IF a < b THEN a ELSE b

\* the paths of search_providers that answer 200
OnShortCircuit == SearchDone /\ search.calls = {}
OnSuccess == SearchDone /\ search.calls # {} /\ search.reply.kind = "ok"
RegistryFailed ==
    SearchDone /\ search.calls # {}
        /\ search.reply.kind \in {"status_error", "request_error"}
OnFallback == RegistryFailed /\ search.response.code = 200

\* the providers each source contributed: the rows the Directory Store query
\* returned, and the records of the registry's answer that normalize
AffiliatedFound == Len(search.affiliated_results)
NpiFound ==
    IF search.reply.kind = "ok" /\ "results" \in DOMAIN search.reply.data
    THEN Cardinality({i \in 1..Len(search.reply.data.results) :
                          transform_npi_result(search.reply.data.results[i]) # None})
    ELSE 0

\* the registry's answer, normalized and marked not affiliated
NpiNormalized ==
    IF "results" \in DOMAIN search.reply.data
    THEN npi_results_of(search.reply.data.results) ELSE <<>>

FilterNames ==
    {"number", "enumeration_type", "taxonomy_description", "first_name",
     "last_name", "organization_name", "city", "state", "postal_code",
     "country_code"}

\* C12: on the success path and on the registry-failure fallback path, results
\* has min(limit, affiliated_count + npi_count) entries, no registry entry
\* stands before an affiliated one, and the first
\* min(affiliated_count, len(results)) entries are affiliated.
C12_ResultsCutAndAffiliatedFirst ==
    (OnSuccess \/ OnFallback) =>
        LET r == Body.results
        IN  /\ Len(r) = Min(search.q.limit, Body.affiliated_count + Body.npi_count)
            /\ \A i, j \in 1..Len(r) :
                   (i < j /\ r[j].is_affiliated) => r[i].is_affiliated
            /\ \A i \in 1..Min(Body.affiliated_count, Len(r)) : r[i].is_affiliated

\* both sources contribute, more than limit together, and results holds
\* providers of both
C12_Witness ==
    /\ OnSuccess
    /\ Body.affiliated_count + Body.npi_count > search.q.limit
    /\ \E i, j \in 1..Len(Body.results) :
           Body.results[i].is_affiliated /\ ~Body.results[j].is_affiliated

\* C13: in every 200 answer of search_providers, result_count is the number
\* of entries of results.
C13_ResultCountIsLength ==
    (SearchDone /\ search.response.code = 200)
        => Body.result_count = Len(Body.results)

\* C14: when the registry call fails and the Directory Store query returned
\* at least one affiliated provider, the answer is 200, results is the
\* affiliated providers cut at limit, npi_count is 0 and error is not empty.
C14_FallbackToAffiliated ==
    (RegistryFailed /\ search.affiliated_results # <<>>) =>
        /\ search.response.code = 200
        /\ Body.results =
               SubSeq(search.affiliated_results, 1,
                      Min(search.q.limit, Len(search.affiliated_results)))
        /\ \A i \in 1..Len(Body.results) : Body.results[i].is_affiliated
        /\ Body.npi_count = 0
        /\ "error" \in DOMAIN Body
        /\ Body.error # <<>>

\* more affiliated providers than limit; the answer holds limit of them
C14_Witness ==
    /\ OnFallback
    /\ search.reply.kind = "request_error"
    /\ Len(search.affiliated_results) > search.q.limit
    /\ Len(Body.results) = search.q.limit

\* C15: when the registry call fails and the Directory Store query returned
\* no affiliated provider, the answer carries no results: 503 for a
\* network-level failure, 502 for a non-2xx status.
C15_GatewayErrors ==
    (RegistryFailed /\ search.affiliated_results = <<>>) =>
        /\ "results" \notin DOMAIN Body
        /\ search.reply.kind = "request_error" => search.response.code = 503
        /\ search.reply.kind = "status_error" => search.response.code = 502

\* the Providers table has rows, none matches, and the network fails
C15_Witness ==
    /\ RegistryFailed
    /\ search.reply.kind = "request_error"
    /\ Providers # {}
    /\ ~search.query_fails
    /\ search.affiliated_results = <<>>
    /\ search.response.code = 503

\* C16 as stated: when the Directory Store query fails, the affiliated list is
\* empty, the registry is called, and a successful registry call is answered
\* 200 with exactly the normalized registry results and affiliated_count 0.
C16_DirectoryFailure_AsStated ==
    (search.pc # "idle" /\ search.query_fails) =>
        /\ search.affiliated_results = <<>>
        /\ "registry" \in search.calls
        /\ OnSuccess =>
              /\ search.response.code = 200
              /\ Body.results = NpiNormalized
              /\ Body.affiliated_count = 0

\* C16 amended: as stated, the normalized registry results being cut at limit.
C16_DirectoryFailure ==
    (search.pc # "idle" /\ search.query_fails) =>
        /\ search.affiliated_results = <<>>
        /\ "registry" \in search.calls
        /\ OnSuccess =>
              /\ search.response.code = 200
              /\ Body.results =
                     SubSeq(NpiNormalized, 1, Min(search.q.limit, Len(NpiNormalized)))
              /\ Body.affiliated_count = 0

\* the query fails on a table with a matching row; the registry's providers
\* are the answer
C16_Witness ==
    /\ OnSuccess
    /\ search.query_fails
    /\ "provider-1" \in Providers
    /\ search.response.code = 200
    /\ Len(Body.results) = 2
    /\ Body.npi_count = 2
    /\ Body.affiliated_count = 0

\* C17: a search that supplies no parameter but limit is answered with
\* result_count 0 and results [], and contacts neither backing source.
C17_OnlyLimitShortCircuits ==
    (search.pc # "idle" /\ \A k \in FilterNames : search.q[k] = None) =>
        /\ SearchDone
        /\ search.calls = {}
        /\ search.response.code = 200
        /\ Body.result_count = 0
        /\ Body.results = <<>>

C17_Witness ==
    /\ SearchDone
    /\ \A k \in FilterNames : search.q[k] = None
    /\ search.q.limit = 2
    /\ Providers # {}
    /\ search.calls = {}
    /\ Body.results = <<>>

\* C18: every 200 answer of search_providers reports affiliated_count and
\* npi_count, equal to the number of providers each source contributed
\* before the cut at limit.
C18_CountsAlwaysReported ==
    (SearchDone /\ search.response.code = 200) =>
        /\ {"affiliated_count", "npi_count"} \subseteq DOMAIN Body
        /\ Body.affiliated_count = AffiliatedFound
        /\ Body.npi_count = NpiFound

----------------------------------------------------------------------------
(* Reading an answered favorites call *)

Digits == {"0", "1", "2", "3", "4", "5", "6", "7", "8", "9"}

\* a 10-digit numeric string
IsNpi(text) == Len(text) = 10 /\ \A i \in 1..Len(text) : text[i] \in Digits

DigitValue(c) ==
    CASE c = "0" -> 0 [] c = "1" -> 1 [] c = "2" -> 2 [] c = "3" -> 3
      [] c = "4" -> 4 [] c = "5" -> 5 [] c = "6" -> 6 [] c = "7" -> 7
      [] c = "8" -> 8 [] OTHER -> 9

\* the number a numeric string denotes
RECURSIVE NumberOf(_)
NumberOf(text) ==
    IF text = <<>> THEN 0
    ELSE 10 * NumberOf(SubSeq(text, 1, Len(text) - 1)) + DigitValue(text[Len(text)])

\* the patient has a favorite for the target: a row keyed by provider_id with
\* that id, or a row keyed by provider_npi with the number the id denotes
AlreadyFavorited(table, patient_id, target) ==
    \E r \in table :
        /\ r.patient_id = patient_id
        /\ \/ "provider_id" \in DOMAIN r /\ r.provider_id = target
           \/ /\ "provider_npi" \in DOMAIN r
              /\ IsNpi(target)
              /\ r.provider_npi = NumberOf(target)

\* C19: a successful add_favorite with a 10-digit numeric identifier stores a
\* row with provider_npi, the number, and no provider_id; with any other
\* identifier a row with provider_id and no provider_npi; no row of
\* FavProviders carries both.
C19_TargetDiscriminator ==
    /\ \A r \in FavProviders : ~({"provider_id", "provider_npi"} \subseteq DOMAIN r)
    /\ (lastFav.op = "add_favorite" /\ lastFav.code = 200) =>
          \E r \in FavProviders \ lastFav.before :
              /\ r.patient_id = lastFav.user.id
              /\ IF IsNpi(lastFav.provider_id)
                 THEN /\ "provider_npi" \in DOMAIN r
                      /\ r.provider_npi = NumberOf(lastFav.provider_id)
                      /\ "provider_id" \notin DOMAIN r
                 ELSE /\ "provider_id" \in DOMAIN r
                      /\ r.provider_id = lastFav.provider_id
                      /\ "provider_npi" \notin DOMAIN r

\* C20: add_favorite by a patient for a target the patient has already
\* favorited, by directory id or by registry number, is answered 409 and
\* inserts no row; add_favorite by a caller who is not a patient is answered
\* 403 and inserts no row.
C20_AddRejections ==
    lastFav.op = "add_favorite" =>
        /\ lastFav.user.role # "patient"
            => lastFav.code = 403 /\ FavProviders = lastFav.before
        /\ (lastFav.user.role = "patient"
              /\ AlreadyFavorited(lastFav.before, lastFav.user.id, lastFav.provider_id))
            => lastFav.code = 409 /\ FavProviders = lastFav.before

\* two rows of FavProviders have one target
SameTarget(r1, r2) ==
    \/ /\ "provider_id" \in DOMAIN r1
       /\ "provider_id" \in DOMAIN r2
       /\ r1.provider_id = r2.provider_id
    \/ /\ "provider_npi" \in DOMAIN r1
       /\ "provider_npi" \in DOMAIN r2
       /\ r1.provider_npi = r2.provider_npi

\* two add_favorite calls of one patient for one target stand between
\* select and insert
TwoAddsPastSelect ==
    \E c, d \in Callers :
        /\ c # d
        /\ inflight[c].pc = "insert"
        /\ inflight[d].pc = "insert"
        /\ inflight[c].current_user = inflight[d].current_user
        /\ inflight[c].provider_id = inflight[d].provider_id

\* C21: in every reachable state, also of add_favorite calls of one patient
\* for one target running side by side, FavProviders holds at most one row
\* per (patient, target).
C21_OneRowPerPatientAndTarget ==
    \A r1, r2 \in FavProviders :
        (r1.patient_id = r2.patient_id /\ SameTarget(r1, r2)) => r1 = r2

\* C22: remove_favorite is idempotent.  A call succeeds; the same call made
\* again on the table it left succeeds too and leaves that table as it is;
\* a call for a target the patient has no favorite row for changes nothing.
C22_RemoveIdempotent ==
    lastFav.op = "remove_favorite" =>
        LET again == remove_favorite(FavProviders, lastFav.user, lastFav.provider_id)
        IN  /\ lastFav.code = 200
            /\ again.code = 200
            /\ again.FavProviders = FavProviders
            /\ (SelectFavorite(lastFav.before, lastFav.user.id, lastFav.provider_id) = {}
                    => FavProviders = lastFav.before)

\* a remove_favorite call has deleted a row, and others remain
C22_Witness ==
    /\ lastFav.op = "remove_favorite"
    /\ FavProviders # lastFav.before
    /\ FavProviders # {}

\* the numbers of the registry providers the patient has favorited: rows
\* keyed by provider_npi, and rows whose provider_id is a 10-digit number
NpiFavorites(table, patient_id) ==
    {r.provider_npi : r \in {x \in table : /\ x.patient_id = patient_id
                                           /\ "provider_npi" \in DOMAIN x}}
    \cup {NumberOf(r.provider_id) :
             r \in {x \in table : /\ x.patient_id = patient_id
                                   /\ "provider_id" \in DOMAIN x
                                   /\ IsNpi(x.provider_id)}}

\* the directory providers the patient has favorited
DirectoryFavorites(table, patient_id) ==
    {id \in FavoriteDirectory : SelectFavorite(table, patient_id, id) # {}}

\* C23: get_favorite_providers of a patient looks up every favorited NPI at
\* the registry, answers 200, and returns every directory favorite and every
\* NPI favorite whose lookup did not fail.
C23_HydrationIsolatesNpiFailures ==
    (lastFav.op = "get_favorite_providers" /\ lastFav.user.role = "patient") =>
        /\ lastFav.code = 200
        /\ lastFav.lookups = NpiFavorites(lastFav.before, lastFav.user.id)
        /\ \A id \in DirectoryFavorites(lastFav.before, lastFav.user.id) :
               \E p \in lastFav.providers : p.id = id /\ p.is_affiliated
        /\ \A n \in NpiFavorites(lastFav.before, lastFav.user.id) \ lastFav.npi_fails :
               \E p \in lastFav.providers : ~p.is_affiliated /\ p.id = n

\* transform_npi_result has returned
Transformed == npi.pc = "transformed"

\* the record has no top-level identifying number: the key is absent, or its
\* value is null or empty
LacksNumber(npi_result) ==
    \/ "number" \notin DOMAIN npi_result
    \/ npi_result.number = None
    \/ npi_result.number = Some(<<>>)

\* C24: a registry record that lacks a top-level identifying number (key
\* absent, value null, or value empty) normalizes to null, whatever the rest
\* of the record contains.
C24_NoNumberIsNull ==
    (Transformed /\ LacksNumber(npi.npi_result)) => npi.provider = None

\* the positions of the entries flagged primary in the record's taxonomy list
PrimaryPositions(npi_result) ==
    {i \in 1..Len(npi_result.taxonomies) :
        Get(npi_result.taxonomies[i], "primary", FALSE)}

\* the record was normalized to a provider and carries a taxonomy list
NormalizedWithTaxonomies ==
    /\ Transformed
    /\ npi.provider # None
    /\ "taxonomies" \in DOMAIN npi.npi_result
    /\ npi.npi_result.taxonomies # <<>>

WroteUpdate(c) ==
    /\ inflight[c].pc = "done"
    /\ inflight[c].op = "update_request"
    /\ inflight[c].code = 200

\* ... as the owning provider, setting status approved or rejected
ProviderDecided(c) ==
    /\ WroteUpdate(c)
    /\ inflight[c].current_user.role = "provider"
    /\ "status" \in DOMAIN inflight[c].update_data
    /\ inflight[c].update_data.status \in {"approved", "rejected"}

\* ... as the owning patient, editing date, time or message
PatientEdited(c) ==
    /\ WroteUpdate(c)
    /\ inflight[c].current_user.role = "patient"
    /\ SuppliesContent(inflight[c].request_data)

\* C26: when the owning patient's edit and the owning provider's decision on
\* one request have both been written and the request stands approved or
\* rejected, the content the provider's call read is the edited content the
\* request has.
C26_DecisionReadTheEdit ==
    \A p, e \in Callers :
        (/\ ProviderDecided(p)
         /\ PatientEdited(e)
         /\ Has(Requests, 1)
         /\ RowOf(Requests, 1).status \in {"approved", "rejected"})
        => ContentOf(Val(inflight[p].request)) = ContentOf(RowOf(Requests, 1))

\* C27: once cancel_request has deleted the request, the row is not stored
\* again: an update_request call that selected the row before the delete and
\* writes after it matches no row, is answered an error and writes nothing.
C27_NoRowAfterCancel ==
    \A c \in Callers :
        (/\ inflight[c].pc = "done"
         /\ inflight[c].op = "cancel_request"
         /\ inflight[c].code = 200)
        => /\ ~Has(Requests, 1)
           /\ \A u \in Callers :
                  (/\ inflight[u].pc = "done"
                   /\ inflight[u].op = "update_request"
                   /\ inflight[u].request # None
                   /\ inflight[u].update_data # EmptyDict
                   /\ inflight[u].found = {})
                  => inflight[u].code = 500

\* the update had selected the row, the cancel deleted it, the update was
\* then written against no row and answered 500
C27_Witness ==
    \E c, u \in Callers :
        /\ inflight[c].pc = "done"
        /\ inflight[c].op = "cancel_request"
        /\ inflight[c].code = 200
        /\ inflight[u].pc = "done"
        /\ inflight[u].op = "update_request"
        /\ inflight[u].request # None
        /\ inflight[u].found = {}
        /\ inflight[u].code = 500
        /\ Requests = {}

\* the search has issued its Directory Store query
DirectoryQueried == search.pc # "idle" /\ "directory" \in search.calls

\* the filters of that query
QueryFilters ==
    directory_filters(search.q.first_name, search.q.last_name,
                      search.q.taxonomy_description, search.q.city, search.q.state)

\* C28: every Directory Store query a search issues carries at least one
\* filter; a search by number, enumeration_type, organization_name,
\* postal_code or country_code alone does not select the whole Providers table.
C28_DirectoryQueryCarriesFilter ==
    DirectoryQueried => QueryFilters # {}

\* the Directory table of a role
DirectoryOf(role) == IF role = "patient" THEN Patients ELSE Providers

\* C29: after any register call, a user has an account at the Auth Gateway
\* exactly when the Directory table of the account's role holds a row with
\* the user's id: a call answered 201 leaves its row, and a call answered
\* with an error leaves no account without its row.
C29_AccountIffDirectoryRow ==
    lastReg.op = "register" =>
        /\ \A a \in Accounts : a.id \in DirectoryOf(a.role)
        /\ \A role \in {"patient", "provider"} : \A id \in DirectoryOf(role) :
               [id |-> id, role |-> role] \in Accounts
        /\ lastReg.code = 201 =>
               lastReg.user_id \in DirectoryOf(lastReg.credentials.role)

\* the record carries a number and a name block
Classifiable(npi_result) ==
    /\ ~LacksNumber(npi_result)
    /\ "basic" \in DOMAIN npi_result
    /\ DOMAIN npi_result.basic # {}

\* "first last" of the name block, skipping absent parts
IndividualName(basic) ==
    strip(join(<<" ">>, <<Get(basic, "first_name", <<>>), Get(basic, "last_name", <<>>)>>))

\* the name that the precedence marker, individual-name fields,
\* organization-name field gives a name block
NameByPrecedence(basic) ==
    LET marker == Get(basic, "enumeration_type", "")
    IN  IF marker = "NPI-2" THEN Get(basic, "organization_name", <<>>)
        ELSE IF marker = "NPI-1" THEN IndividualName(basic)
        ELSE IF "first_name" \in DOMAIN basic \/ "last_name" \in DOMAIN basic
        THEN IndividualName(basic)
        ELSE Get(basic, "organization_name", <<>>)

\* C30: transform_npi_result names a record by its explicit enumeration_type
\* first (NPI-2 by organization_name, NPI-1 by the composed individual name,
\* whichever name fields are also present); only without the marker do the
\* individual-name fields, and after them the organization-name field, decide.
C30_MarkerDecidesFirst ==
    (Transformed /\ Classifiable(npi.npi_result)) =>
        LET name == NameByPrecedence(npi.npi_result.basic)
        IN  IF name = <<>> THEN npi.provider = None
            ELSE npi.provider # None /\ Val(npi.provider).name = name

====
